---- MODULE Spec2Model ----
(***************************************************************************)
(* The fitness tracker's record store (server/storage.ts, MemStorage) and  *)
(* the request handlers in front of it (server/routes.ts): workouts, the   *)
(* streak recomputation that follows every workout insertion, the profile  *)
(* update and the dashboard statistics.                                    *)
(*                                                                         *)
(* Time is counted in ticks; a calendar day is TicksPerDay ticks long, so  *)
(* that a timestamp and the day it falls on are different things.  Days    *)
(* are uniform (no daylight-saving shifts of the server's local time).     *)
(***************************************************************************)
EXTENDS Integers, Sequences, FiniteSets, TLC

\* ---------------------------------------------------------------- bounds
MaxUsers == 1        \* accounts registered
MaxWorkouts == 3     \* workouts ever created
MaxTime == 4         \* last tick of the clock
MaxRecords == 3      \* records ever created, in the runs over all collections
TicksPerDay == 2     \* length of a day (1000 * 60 * 60 * 24 ms), in ticks

UserIds == 1..MaxUsers
WorkoutIds == 1..MaxWorkouts
NULL == -1           \* a column that holds no value (null / undefined)

VARIABLES
    users,           \* MemStorage.users: id -> User
    workouts,        \* MemStorage.workouts, in Map insertion order
    nextId,          \* identifiers generated so far (randomUUID), per collection
    healthMetrics,   \* MemStorage.healthMetrics, in Map insertion order
    scheduledWorkouts, \* MemStorage.scheduledWorkouts, in Map insertion order
    now,             \* the clock (new Date()), in ticks
    response,        \* the stats object sent by the request handled last, if any
    pending          \* the calls of createWorkout suspended at an await

vars == <<users, workouts, healthMetrics, scheduledWorkouts, nextId, now, response,
         pending>>

\* ------------------------------------------------------------- helpers
Max(a, b) == IF a >= b THEN a ELSE b

\* { ...rec, ...upd }
Merge(rec, upd) ==
    [f \in (DOMAIN rec) \cup (DOMAIN upd) |->
        IF f \in DOMAIN upd THEN upd[f] ELSE rec[f]]

\* date.setHours(0, 0, 0, 0)
StartOfDayUntruncated(t) == t
StartOfDay(t) == t - (t % TicksPerDay)

\* Math.floor((today - workoutDate) / (1000 * 60 * 60 * 24))
DaysDiff(today, workoutDate) == (today - workoutDate) \div TicksPerDay

\* the calendar day a timestamp falls on
DayOf(t) == t \div TicksPerDay

\* seq.filter(pred) for pred = (r.userId === userId)
RECURSIVE FilterByUser(_, _)
FilterByUser(seq, userId) ==
    IF seq = <<>> THEN <<>>
    ELSE LET rest == FilterByUser(Tail(seq), userId)
         IN  IF Head(seq).userId = userId THEN <<Head(seq)>> \o rest ELSE rest

\* Array.prototype.sort with (a, b) => b.createdAt - a.createdAt: stable,
\* descending by createdAt.  x goes behind every element that is not older.
RECURSIVE InsertDescUnstable(_, _)
InsertDescUnstable(x, sorted) ==
    IF sorted = <<>> THEN <<x>>
    ELSE IF Head(sorted).createdAt > x.createdAt
         THEN <<Head(sorted)>> \o InsertDescUnstable(x, Tail(sorted))
         ELSE <<x>> \o sorted

RECURSIVE InsertDesc(_, _)
InsertDesc(x, sorted) ==
    IF sorted = <<>> THEN <<x>>
    ELSE IF Head(sorted).createdAt >= x.createdAt
         THEN <<Head(sorted)>> \o InsertDesc(x, Tail(sorted))
         ELSE <<x>> \o sorted

RECURSIVE SortDesc(_, _)
SortDesc(seq, acc) ==
    IF seq = <<>> THEN acc
    ELSE SortDesc(Tail(seq), InsertDesc(Head(seq), acc))

getWorkoutsByUserId(ws, userId) == SortDesc(FilterByUser(ws, userId), <<>>)

getHealthMetricsByUserId(hs, userId) == SortDesc(FilterByUser(hs, userId), <<>>)

getOldestWeight(hs, userId) ==
    LET metrics == getHealthMetricsByUserId(hs, userId)
    IN  IF metrics = <<>> THEN NULL ELSE metrics[Len(metrics)].weight

\* (await getLatestHealthMetrics(userId))?.weight
getLatestWeight(hs, userId) ==
    LET metrics == getHealthMetricsByUserId(hs, userId)
    IN  IF metrics = <<>> THEN NULL ELSE metrics[1].weight

\* the for loop of updateUserStreak from index i (1-based) on
RECURSIVE StreakLoopLenient(_, _, _)
StreakLoopLenient(sortedWorkouts, i, today) ==
    IF i > Len(sortedWorkouts) THEN 0
    ELSE IF DaysDiff(today, StartOfDay(sortedWorkouts[i].createdAt)) <= i - 1
         THEN 1 + StreakLoopLenient(sortedWorkouts, i + 1, today)
         ELSE 0

RECURSIVE StreakLoop(_, _, _)
StreakLoop(sortedWorkouts, i, today) ==
    IF i > Len(sortedWorkouts) THEN 0
    ELSE IF DaysDiff(today, StartOfDay(sortedWorkouts[i].createdAt)) = i - 1
         THEN 1 + StreakLoop(sortedWorkouts, i + 1, today)
         ELSE 0

computeCurrentStreak(ws, userId, t) ==
    LET userWorkouts == getWorkoutsByUserId(ws, userId)
        sortedWorkouts == SortDesc(userWorkouts, <<>>)
    IN  StreakLoop(sortedWorkouts, 1, StartOfDay(t))

\* MemStorage.updateUser
updateUser(us, id, updates) ==
    IF id \notin DOMAIN us THEN us
    ELSE [us EXCEPT ![id] = Merge(us[id], updates)]

\* Math.max(user.longestStreak || 0, currentStreak)
ratchetOverwrite(longest, currentStreak) == currentStreak
ratchet(longest, currentStreak) ==
    Max(IF longest = NULL THEN 0 ELSE longest, currentStreak)

\* MemStorage.updateUserStreak
updateUserStreak(us, ws, userId, t) ==
    IF userId \notin DOMAIN us THEN us
    ELSE LET currentStreak == computeCurrentStreak(ws, userId, t)
             longestStreak == ratchet(us[userId].longestStreak, currentStreak)
         IN  updateUser(us, userId,
                 [currentStreak |-> currentStreak, longestStreak |-> longestStreak])

\* ------------------------------------------------------------ requests
\* no stats were sent
NoStats == [user |-> 0, currentStreak |-> NULL, longestStreak |-> NULL,
            weeklyWorkouts |-> NULL, totalWorkouts |-> NULL,
            weightProgress |-> NULL, currentWeight |-> NULL,
            targetWeight |-> NULL]

\* a body a client may send to PATCH /api/user/profile: req.body goes to
\* updateUser as it is, whatever columns it names
ProfileBodies ==
    { [currentWeight |-> 18000, currentStreak |-> 3, longestStreak |-> 0] }

\* (row.field || 0)
OrZero(x) == IF x = NULL THEN 0 ELSE x

\* a value that JavaScript's || and && take for true: neither null nor 0
Truthy(x) == x # NULL /\ x # 0

\* a || b
OrElse(a, b) == IF Truthy(a) THEN a ELSE b

\* Math.round(x * 10) / 10 on a weight in hundredths of a pound
RoundDownToTenth(x) == (x \div 10) * 10

RoundToTenth(x) == ((x + 5) \div 10) * 10

\* workouts.filter(w => new Date(w.createdAt) >= oneWeekAgo).length
RECURSIVE CountSinceByDay(_, _)
CountSinceByDay(seq, since) ==
    IF seq = <<>> THEN 0
    ELSE (IF StartOfDay(Head(seq).createdAt) >= StartOfDay(since) THEN 1 ELSE 0)
         + CountSinceByDay(Tail(seq), since)

RECURSIVE CountSince(_, _)
CountSince(seq, since) ==
    IF seq = <<>> THEN 0
    ELSE (IF Head(seq).createdAt >= since THEN 1 ELSE 0)
         + CountSince(Tail(seq), since)

\* map.delete(id)
RECURSIVE RemoveId(_, _)
RemoveId(seq, id) ==
    IF seq = <<>> THEN <<>>
    ELSE IF Head(seq).id = id THEN RemoveId(Tail(seq), id)
         ELSE <<Head(seq)>> \o RemoveId(Tail(seq), id)

\* map.get(id): the positions of the records stored under id (none or one)
Stored(seq, id) == { i \in 1..Len(seq) : seq[i].id = id }

Init ==
    /\ users = <<>>
    /\ workouts = <<>>
    /\ healthMetrics = <<>>
    /\ scheduledWorkouts = <<>>
    /\ nextId = [users |-> 0, workouts |-> 0, healthMetrics |-> 0,
                 scheduledWorkouts |-> 0]
    /\ now = 0
    /\ response = NoStats
    /\ pending = <<>>

\* MemStorage.createUser, called when an account is registered
createUser ==
    /\ nextId.users < MaxUsers
    /\ LET id == nextId.users + 1
       IN  /\ users' = users @@ (id :> [id |-> id, currentStreak |-> 0,
                                       longestStreak |-> 0,
                                       currentWeight |-> NULL,
                                       targetWeight |-> NULL])
           /\ nextId' = [nextId EXCEPT !.users = id]
    /\ response' = NoStats
    /\ UNCHANGED <<workouts, healthMetrics, scheduledWorkouts, now>>
    /\ UNCHANGED pending

\* POST /api/workouts with a body that passes insertWorkoutSchema, and
\* MemStorage.createWorkout behind it
createWorkoutStale(userId) ==
    /\ nextId.workouts < MaxWorkouts
    /\ LET id == nextId.workouts + 1
           stored == Append(workouts, [id |-> id, userId |-> userId, createdAt |-> now])
       IN  /\ workouts' = stored
           /\ users' = updateUserStreak(users, workouts, userId, now)
           /\ nextId' = [nextId EXCEPT !.workouts = id]
    /\ response' = NoStats
    /\ UNCHANGED <<healthMetrics, scheduledWorkouts, now>>
    /\ UNCHANGED pending

createWorkout(userId) ==
    /\ nextId.workouts < MaxWorkouts
    /\ LET id == nextId.workouts + 1
           stored == Append(workouts, [id |-> id, userId |-> userId, createdAt |-> now])
       IN  /\ workouts' = stored
           /\ users' = updateUserStreak(users, stored, userId, now)
           /\ nextId' = [nextId EXCEPT !.workouts = id]
    /\ response' = NoStats
    /\ UNCHANGED <<healthMetrics, scheduledWorkouts, now>>
    /\ UNCHANGED pending

\* DELETE /api/workouts/:id
deleteWorkoutRecompute(userId, id) ==
    /\ LET found == Stored(workouts, id)
       IN  IF found = {} \/ (\E i \in found : workouts[i].userId # userId)
           THEN UNCHANGED <<users, workouts>>
           ELSE /\ workouts' = RemoveId(workouts, id)
                /\ users' = updateUserStreak(users, RemoveId(workouts, id), userId, now)
    /\ response' = NoStats
    /\ UNCHANGED <<healthMetrics, scheduledWorkouts, nextId, now>>
    /\ UNCHANGED pending

deleteWorkout(userId, id) ==
    /\ LET found == Stored(workouts, id)
       IN  IF found = {} \/ (\E i \in found : workouts[i].userId # userId)
           THEN UNCHANGED workouts
           ELSE workouts' = RemoveId(workouts, id)
    /\ response' = NoStats
    /\ UNCHANGED <<users, healthMetrics, scheduledWorkouts, nextId, now>>
    /\ UNCHANGED pending

\* PATCH /api/user/profile
updateUserProfile(userId, body) ==
    /\ users' = updateUser(users, userId, body)
    /\ response' = NoStats
    /\ UNCHANGED <<workouts, healthMetrics, scheduledWorkouts, nextId, now>>
    /\ UNCHANGED pending

\* let weightProgress = 0; if (metrics.length >= 2 && user?.currentWeight) ...
weightProgressNoBaseline(user, metrics, latestWeight0) ==
    IF Len(metrics) >= 2
    THEN LET oldestWeight == OrElse(metrics[Len(metrics)].weight, user.currentWeight)
             latestWeight == OrElse(latestWeight0, user.currentWeight)
         IN  latestWeight - oldestWeight
    ELSE 0

weightProgressOf(user, metrics, latestWeight0) ==
    IF Len(metrics) >= 2 /\ Truthy(user.currentWeight)
    THEN LET oldestWeight == OrElse(metrics[Len(metrics)].weight, user.currentWeight)
             latestWeight == OrElse(latestWeight0, user.currentWeight)
         IN  latestWeight - oldestWeight
    ELSE 0

\* the stats object of GET /api/dashboard/stats
dashboardStats(us, ws, hs, userId, t) ==
    LET user == us[userId]
        userWorkouts == getWorkoutsByUserId(ws, userId)
        latestWeight0 == getLatestWeight(hs, userId)
        oneWeekAgo == t - 7 * TicksPerDay
        metrics == getHealthMetricsByUserId(hs, userId)
        weightProgress == weightProgressOf(user, metrics, latestWeight0)
    IN  [user |-> userId,
         currentStreak |-> OrZero(user.currentStreak),
         longestStreak |-> OrZero(user.longestStreak),
         weeklyWorkouts |-> CountSince(userWorkouts, oneWeekAgo),
         totalWorkouts |-> Len(userWorkouts),
         weightProgress |-> RoundToTenth(weightProgress),
         currentWeight |-> OrElse(latestWeight0, user.currentWeight),
         targetWeight |-> user.targetWeight]

\* GET /api/dashboard/stats
getDashboardStatsSyncWeight(userId) ==
    /\ response' = dashboardStats(users, workouts, healthMetrics, userId, now)
    /\ users' = updateUser(users, userId,
                    [currentWeight |-> dashboardStats(users, workouts, healthMetrics,
                                                      userId, now).currentWeight])
    /\ UNCHANGED <<workouts, healthMetrics, scheduledWorkouts, nextId, now>>
    /\ UNCHANGED pending

getDashboardStats(userId) ==
    /\ response' = dashboardStats(users, workouts, healthMetrics, userId, now)
    /\ UNCHANGED <<users, workouts, healthMetrics, scheduledWorkouts, nextId, now>>
    /\ UNCHANGED pending

\* POST /api/health-metrics with a body that passes insertHealthMetricsSchema,
\* and MemStorage.createHealthMetrics behind it
createHealthMetrics(userId, weight) ==
    /\ LET id == nextId.healthMetrics + 1
       IN  /\ healthMetrics' = Append(healthMetrics,
                  [id |-> id, userId |-> userId, weight |-> weight, createdAt |-> now])
           /\ nextId' = [nextId EXCEPT !.healthMetrics = id]
    /\ response' = NoStats
    /\ UNCHANGED <<users, workouts, scheduledWorkouts, now>>
    /\ UNCHANGED pending

\* POST /api/scheduled-workouts with a body that passes
\* insertScheduledWorkoutSchema, and MemStorage.createScheduledWorkout
createScheduledWorkout(userId, scheduledDate) ==
    /\ LET id == nextId.scheduledWorkouts + 1
       IN  /\ scheduledWorkouts' = Append(scheduledWorkouts,
                  [id |-> id, userId |-> userId, scheduledDate |-> scheduledDate,
                   completed |-> 0, createdAt |-> now])
           /\ nextId' = [nextId EXCEPT !.scheduledWorkouts = id]
    /\ response' = NoStats
    /\ UNCHANGED <<users, workouts, healthMetrics, now>>
    /\ UNCHANGED pending

\* PATCH /api/scheduled-workouts/:id
updateScheduledWorkout(userId, id, body) ==
    /\ LET found == Stored(scheduledWorkouts, id)
       IN  IF found = {} \/ (\E i \in found : scheduledWorkouts[i].userId # userId)
           THEN UNCHANGED scheduledWorkouts
           ELSE scheduledWorkouts' =
                    [i \in 1..Len(scheduledWorkouts) |->
                        IF i \in found THEN Merge(scheduledWorkouts[i], body)
                        ELSE scheduledWorkouts[i]]
    /\ response' = NoStats
    /\ UNCHANGED <<users, workouts, healthMetrics, nextId, now>>
    /\ UNCHANGED pending

\* DELETE /api/scheduled-workouts/:id
deleteScheduledWorkout(userId, id) ==
    /\ LET found == Stored(scheduledWorkouts, id)
       IN  IF found = {} \/ (\E i \in found : scheduledWorkouts[i].userId # userId)
           THEN UNCHANGED scheduledWorkouts
           ELSE scheduledWorkouts' = RemoveId(scheduledWorkouts, id)
    /\ response' = NoStats
    /\ UNCHANGED <<users, workouts, healthMetrics, nextId, now>>
    /\ UNCHANGED pending

\* the clock advances
Tick ==
    /\ now < MaxTime
    /\ now' = now + 1
    /\ response' = NoStats
    /\ UNCHANGED <<users, workouts, healthMetrics, scheduledWorkouts, nextId>>
    /\ UNCHANGED pending

\* Every request but the registration carries the identifier of a stored
\* user (requireAuth and the session).
Next ==
    \/ createUser
    \/ \E userId \in DOMAIN users : createWorkout(userId)
    \/ \E userId \in DOMAIN users, id \in WorkoutIds : deleteWorkout(userId, id)
    \/ \E userId \in DOMAIN users, body \in ProfileBodies : updateUserProfile(userId, body)
    \/ \E userId \in DOMAIN users : getDashboardStats(userId)
    \/ Tick

Spec == Init /\ [][Next]_vars

\* The workout ledger alone: workouts are logged as the days pass and the
\* dashboard is read; nothing is deleted and no profile update is sent.
NextLedger ==
    \/ createUser
    \/ \E userId \in DOMAIN users : createWorkout(userId)
    \/ \E userId \in DOMAIN users : getDashboardStats(userId)
    \/ Tick

SpecLedger == Init /\ [][NextLedger]_vars

\* The requests on all four collections, all of them arriving within one
\* tick of the clock.  The workouts, health metrics and scheduled workouts
\* ever created are MaxRecords together.
Created == nextId.workouts + nextId.healthMetrics + nextId.scheduledWorkouts

RecordIds == 1..MaxRecords
MetricWeights == { NULL, 17500 }
ScheduledDates == { 3 }
ScheduledBodies == { [completed |-> 1] }

NextStore ==
    \/ createUser
    \/ \E userId \in DOMAIN users : Created < MaxRecords /\ createWorkout(userId)
    \/ \E userId \in DOMAIN users, weight \in MetricWeights :
          Created < MaxRecords /\ createHealthMetrics(userId, weight)
    \/ \E userId \in DOMAIN users, scheduledDate \in ScheduledDates :
          Created < MaxRecords /\ createScheduledWorkout(userId, scheduledDate)
    \/ \E userId \in DOMAIN users, id \in RecordIds, body \in ScheduledBodies :
          updateScheduledWorkout(userId, id, body)
    \/ \E userId \in DOMAIN users, id \in RecordIds : deleteScheduledWorkout(userId, id)
    \/ \E userId \in DOMAIN users, id \in RecordIds : deleteWorkout(userId, id)
    \/ \E userId \in DOMAIN users, body \in ProfileBodies : updateUserProfile(userId, body)
    \/ \E userId \in DOMAIN users : getDashboardStats(userId)

SpecStore == Init /\ [][NextStore]_vars

TypeOK ==
    /\ nextId.users \in 0..MaxUsers
    /\ nextId.workouts \in 0..MaxWorkouts
    /\ now \in 0..MaxTime
    /\ DOMAIN users = 1..nextId.users

\* ---------------------------------------------------- streak properties
\* the stored workouts of a user, in insertion order
WorkoutsOf(ws, userId) == FilterByUser(ws, userId)

\* the calendar days on which a user has at least one workout
ActiveDays(ws, userId) ==
    { DayOf(WorkoutsOf(ws, userId)[i].createdAt) : i \in 1..Len(WorkoutsOf(ws, userId)) }

\* no two workouts of the user fall on the same calendar day
DistinctDays(ws, userId) ==
    Cardinality(ActiveDays(ws, userId)) = Len(WorkoutsOf(ws, userId))

\* the largest n such that every day today - k, k in 0..n-1, is active
ConsecutiveDays(days, today) ==
    CHOOSE n \in 0..Cardinality(days) :
        /\ \A k \in 0..(n - 1) : (today - k) \in days
        /\ (n = Cardinality(days) \/ (today - n) \notin days)

\* the workout created last is one of userId, created at this very tick
JustCreated(userId) ==
    /\ workouts # <<>>
    /\ workouts[Len(workouts)].userId = userId
    /\ workouts[Len(workouts)].createdAt = now
    /\ workouts[Len(workouts)].id = nextId.workouts

\* C1: when a user's stored workouts fall on pairwise distinct calendar
\* days, createWorkout leaves currentStreak equal to the number of
\* consecutive days, counted back from today, that have a workout.
C1_StreakCountsConsecutiveDays ==
    [][\A userId \in DOMAIN users :
          (createWorkout(userId) /\ DistinctDays(workouts', userId))
          => users'[userId].currentStreak
               = ConsecutiveDays(ActiveDays(workouts', userId), DayOf(now'))]_vars

\* workouts on today, today-1 and today-2, none before: the streak is 3
C1_Witness ==
    \E userId \in DOMAIN users :
        /\ JustCreated(userId)
        /\ DistinctDays(workouts, userId)
        /\ ActiveDays(workouts, userId) = { DayOf(now), DayOf(now) - 1, DayOf(now) - 2 }
        /\ users[userId].currentStreak = 3
        /\ users[userId].longestStreak = 3

\* C2: the streak written by createWorkout depends only on the set of
\* active days (it is the number of consecutive active days ending today),
\* so a further workout on a day that is already active leaves it as the
\* recomputation on the history before the insertion gives it.
C2_SameDayCountsOnce ==
    [][\A userId \in DOMAIN users :
          createWorkout(userId)
          => /\ users'[userId].currentStreak
                  = ConsecutiveDays(ActiveDays(workouts', userId), DayOf(now'))
             /\ (DayOf(now) \in ActiveDays(workouts, userId)
                  => users'[userId].currentStreak
                       = computeCurrentStreak(workouts, userId, now))]_vars

\* C3: a user whose only workouts are two workouts created today has
\* currentStreak 1 after the second insertion.
C3_TwoWorkoutsTodayStreakOne ==
    [][\A userId \in DOMAIN users :
          (/\ createWorkout(userId)
           /\ Len(WorkoutsOf(workouts', userId)) = 2
           /\ ActiveDays(workouts', userId) = { DayOf(now') })
          => users'[userId].currentStreak = 1]_vars

C3_Witness ==
    \E userId \in DOMAIN users :
        /\ JustCreated(userId)
        /\ Len(WorkoutsOf(workouts, userId)) = 2
        /\ ActiveDays(workouts, userId) = { DayOf(now) }
        /\ users[userId].currentStreak = 1
        /\ users[userId].longestStreak = 1

\* C4: the recomputation sets longestStreak to the larger of the stored
\* longestStreak and the new currentStreak, whatever the history holds.
C4_LongestIsRatchet ==
    [][\A userId \in DOMAIN users :
          createWorkout(userId)
          => users'[userId].longestStreak
               = Max(users[userId].longestStreak, users'[userId].currentStreak)]_vars

\* a recomputation kept a longestStreak above the streak it computed
C4_Witness ==
    \E userId \in DOMAIN users :
        /\ JustCreated(userId)
        /\ Len(WorkoutsOf(workouts, userId)) = 3
        /\ users[userId].currentStreak = 1
        /\ users[userId].longestStreak = 2

\* C5: every user has longestStreak >= currentStreak, in every state.
C5_LongestAtLeastCurrent ==
    \A userId \in DOMAIN users :
        users[userId].longestStreak >= users[userId].currentStreak

\* C6: no workout insertion decreases the longestStreak of any user.
C6_LongestNeverDecreasesOnInsert ==
    [][\A userId \in DOMAIN users :
          createWorkout(userId)
          => \A other \in DOMAIN users :
                users'[other].longestStreak >= users[other].longestStreak]_vars

\* an insertion two days after the only other stored workout: the streak
\* is 1 again and the longest streak reached before is kept
C6_Witness ==
    \E userId \in DOMAIN users :
        /\ JustCreated(userId)
        /\ ActiveDays(workouts, userId) = { DayOf(now), DayOf(now) - 2 }
        /\ users[userId].currentStreak = 1
        /\ users[userId].longestStreak = 2

\* C7: a profile update leaves currentStreak and longestStreak as they are.
C7_ProfileUpdateKeepsStreaks ==
    [][\A userId \in DOMAIN users, body \in ProfileBodies :
          updateUserProfile(userId, body)
          => /\ users'[userId].currentStreak = users[userId].currentStreak
             /\ users'[userId].longestStreak = users[userId].longestStreak]_vars

\* C8: the currentStreak of a dashboard response is the number of
\* consecutive active days ending at the day of the query (0 when that day
\* has no workout).
C8_StatsStreakIsRecomputed ==
    response.user \in DOMAIN users
    => response.currentStreak
         = ConsecutiveDays(ActiveDays(workouts, response.user), DayOf(now))

\* C9 as stated: a user left with no stored workout has currentStreak 0.
C9_NoWorkoutsNoStreak ==
    [][\A userId \in DOMAIN users :
          (WorkoutsOf(workouts, userId) # <<>> /\ WorkoutsOf(workouts', userId) = <<>>)
          => users'[userId].currentStreak = 0]_vars

\* C9 as amended: a user is created with currentStreak 0, and the stored
\* value changes only in a createWorkout or updateUserProfile request of
\* that user; deleteWorkout never resets it.
C9_StreakZeroUntilWritten ==
    [][/\ \A userId \in (DOMAIN users') \ (DOMAIN users) :
             users'[userId].currentStreak = 0
       /\ \A userId \in DOMAIN users :
             users'[userId].currentStreak # users[userId].currentStreak
             => \/ createWorkout(userId)
                \/ \E body \in ProfileBodies : updateUserProfile(userId, body)]_vars

\* all the workouts of a user were deleted and the streak is still stored
C9_Witness ==
    \E userId \in DOMAIN users :
        /\ WorkoutsOf(workouts, userId) = <<>>
        /\ nextId.workouts > 0
        /\ users[userId].currentStreak = 1
        /\ users[userId].longestStreak = 1

\* C10: a dashboard request changes no stored user, workout, health-metrics
\* record or scheduled workout.
C10_StatsIsPureRead ==
    [][\A userId \in DOMAIN users :
          getDashboardStats(userId)
          => UNCHANGED <<users, workouts, healthMetrics, scheduledWorkouts>>]_vars

\* stats were sent for a user who has a workout, a scheduled workout and a
\* latest health-metrics weight that differs from the profile's
C10_Witness ==
    /\ response.user \in DOMAIN users
    /\ WorkoutsOf(workouts, response.user) # <<>>
    /\ FilterByUser(scheduledWorkouts, response.user) # <<>>
    /\ FilterByUser(healthMetrics, response.user) # <<>>
    /\ response.currentWeight = 17500
    /\ users[response.user].currentWeight # 17500

\* C11: a dashboard request that follows a dashboard request of the same
\* user, with nothing in between, is answered with the same stats.
C11_StatsTwiceSameAnswer ==
    [][\A userId \in DOMAIN users :
          (getDashboardStats(userId) /\ response.user = userId)
          => response' = response]_vars

\* stats with a weight trend were sent, and a further request is answered
\* from the same store at the same tick
C11_Witness ==
    /\ response.user \in DOMAIN users
    /\ response.weightProgress # 0
    /\ response.totalWorkouts > 0
    /\ response = dashboardStats(users, workouts, healthMetrics, response.user, now)

\* C12: deleteWorkout leaves currentStreak and longestStreak of every user
\* as they were, also when the deleted workout was part of the streak.
C12_DeleteKeepsStreaks ==
    [][\A userId \in DOMAIN users, id \in WorkoutIds :
          deleteWorkout(userId, id)
          => \A owner \in DOMAIN users :
                /\ users'[owner].currentStreak = users[owner].currentStreak
                /\ users'[owner].longestStreak = users[owner].longestStreak]_vars

\* today's workout of a two-day streak was deleted: the streak stored is
\* still 2, the workouts left give 0
C12_Witness ==
    \E userId \in DOMAIN users :
        /\ Len(WorkoutsOf(workouts, userId)) = 1
        /\ nextId.workouts = 2
        /\ users[userId].currentStreak = 2
        /\ users[userId].longestStreak = 2
        /\ computeCurrentStreak(workouts, userId, now) = 0

\* C13: when createWorkout has completed, the workout is stored and the
\* streak fields are the ones recomputed from the workouts with it: the
\* streak counts the new workout of today, so it is at least 1.
C13_StreakRecomputedWithNewWorkout ==
    [][\A userId \in DOMAIN users :
          createWorkout(userId)
          => /\ Stored(workouts', nextId'.workouts) # {}
             /\ users'[userId].currentStreak >= 1
             /\ users'[userId].currentStreak
                  = computeCurrentStreak(workouts', userId, now')
             /\ users'[userId].longestStreak >= users'[userId].currentStreak]_vars

\* the second workout of a two-day streak has just been stored
C13_Witness ==
    \E userId \in DOMAIN users :
        /\ JustCreated(userId)
        /\ Len(WorkoutsOf(workouts, userId)) = 2
        /\ users[userId].currentStreak = 2
        /\ users[userId].longestStreak = 2

\* ------------------------------------------------- two users, one store
\* MemStorage.createUser while fewer than limit accounts are registered
createUserUpTo(limit) ==
    /\ nextId.users < limit
    /\ LET id == nextId.users + 1
       IN  /\ users' = users @@ (id :> [id |-> id, currentStreak |-> 0,
                                       longestStreak |-> 0,
                                       currentWeight |-> NULL,
                                       targetWeight |-> NULL])
           /\ nextId' = [nextId EXCEPT !.users = id]
    /\ response' = NoStats
    /\ UNCHANGED <<workouts, healthMetrics, scheduledWorkouts, now>>
    /\ UNCHANGED pending

\* !record || record.userId !== req.user.id
NotOwnedAnyOwner(seq, userId, id) == Stored(seq, id) = {}
NotOwned(seq, userId, id) ==
    Stored(seq, id) = {} \/ (\E i \in Stored(seq, id) : seq[i].userId # userId)

\* what a handler sends: the status code and the message of an error
Sent(status, message) == [status |-> status, message |-> message]

\* GET /api/workouts/:id
getWorkoutResponse(userId, id) ==
    IF NotOwned(workouts, userId, id) THEN Sent(404, "Workout not found")
    ELSE Sent(200, "")

getWorkout(userId, id) ==
    /\ response' = NoStats
    /\ UNCHANGED <<users, workouts, healthMetrics, scheduledWorkouts, nextId, now>>
    /\ UNCHANGED pending

\* DELETE /api/workouts/:id
deleteWorkoutResponse(userId, id) ==
    IF NotOwned(workouts, userId, id) THEN Sent(404, "Workout not found")
    ELSE Sent(204, "")

\* PATCH /api/scheduled-workouts/:id
updateScheduledWorkoutResponse(userId, id) ==
    IF NotOwned(scheduledWorkouts, userId, id)
    THEN Sent(404, "Scheduled workout not found")
    ELSE Sent(200, "")

\* DELETE /api/scheduled-workouts/:id
deleteScheduledWorkoutResponse(userId, id) ==
    IF NotOwned(scheduledWorkouts, userId, id)
    THEN Sent(404, "Scheduled workout not found")
    ELSE Sent(204, "")

\* bodies a client may send to PATCH /api/scheduled-workouts/:id: the
\* completion flag, or the owner column set to a registered user
OwnerBodies == ScheduledBodies \cup { [userId |-> owner] : owner \in DOMAIN users }

\* The requests of two users on the workouts and the scheduled workouts, all
\* of them arriving within one tick of the clock.
NextPair ==
    \/ createUserUpTo(MaxUsers + 1)
    \/ \E userId \in DOMAIN users : Created < MaxRecords /\ createWorkout(userId)
    \/ \E userId \in DOMAIN users, scheduledDate \in ScheduledDates :
          Created < MaxRecords /\ createScheduledWorkout(userId, scheduledDate)
    \/ \E userId \in DOMAIN users, id \in RecordIds, body \in OwnerBodies :
          updateScheduledWorkout(userId, id, body)
    \/ \E userId \in DOMAIN users, id \in RecordIds : deleteScheduledWorkout(userId, id)
    \/ \E userId \in DOMAIN users, id \in RecordIds : getWorkout(userId, id)
    \/ \E userId \in DOMAIN users, id \in RecordIds : deleteWorkout(userId, id)

SpecPair == Init /\ [][NextPair]_vars

\* The same two users with their health metrics and profiles as well.
NextShared ==
    \/ NextPair
    \/ \E userId \in DOMAIN users :
          Created < MaxRecords /\ createHealthMetrics(userId, 17500)
    \/ \E userId \in DOMAIN users, body \in ProfileBodies : updateUserProfile(userId, body)

SpecShared == Init /\ [][NextShared]_vars

\* the record stored under id belongs to another user than userId
Foreign(seq, userId, id) ==
    Stored(seq, id) # {} /\ (\A i \in Stored(seq, id) : seq[i].userId # userId)

\* C14: a request that names a record of another user is answered exactly
\* as one that names an id stored nowhere (the same 404 and message), and
\* the request leaves the record as it was.
C14_ForeignIdIsNotFound ==
    /\ [](\A userId \in DOMAIN users, id \in RecordIds, missing \in 1..(MaxRecords + 1) :
            /\ (Foreign(workouts, userId, id) /\ Stored(workouts, missing) = {})
               => /\ getWorkoutResponse(userId, id) = getWorkoutResponse(userId, missing)
                  /\ deleteWorkoutResponse(userId, id) = deleteWorkoutResponse(userId, missing)
                  /\ getWorkoutResponse(userId, id).status = 404
                  /\ deleteWorkoutResponse(userId, id).status = 404
            /\ (Foreign(scheduledWorkouts, userId, id) /\ Stored(scheduledWorkouts, missing) = {})
               => /\ updateScheduledWorkoutResponse(userId, id)
                       = updateScheduledWorkoutResponse(userId, missing)
                  /\ deleteScheduledWorkoutResponse(userId, id)
                       = deleteScheduledWorkoutResponse(userId, missing)
                  /\ updateScheduledWorkoutResponse(userId, id).status = 404
                  /\ deleteScheduledWorkoutResponse(userId, id).status = 404)
    /\ [][\A userId \in DOMAIN users, id \in RecordIds :
            /\ (Foreign(workouts, userId, id)
                /\ (getWorkout(userId, id) \/ deleteWorkout(userId, id)))
               => workouts' = workouts
            /\ (Foreign(scheduledWorkouts, userId, id)
                /\ (\/ deleteScheduledWorkout(userId, id)
                    \/ \E body \in OwnerBodies : updateScheduledWorkout(userId, id, body)))
               => scheduledWorkouts' = scheduledWorkouts]_vars

\* two users, each with a workout and a scheduled workout the other one names
C14_Witness ==
    \E userId \in DOMAIN users, id \in RecordIds :
        /\ Foreign(workouts, userId, id)
        /\ Foreign(scheduledWorkouts, userId, id)
        /\ deleteWorkoutResponse(userId, id) = Sent(404, "Workout not found")
        /\ updateScheduledWorkoutResponse(userId, id)
             = Sent(404, "Scheduled workout not found")
        /\ nextId.workouts + nextId.scheduledWorkouts = MaxRecords

\* ------------------------------------------------------------ the listings
\* Array.prototype.sort with (a, b) => a.scheduledDate - b.scheduledDate:
\* stable, ascending by scheduledDate.  x goes behind every element that is
\* not later.
RECURSIVE InsertAscUnstable(_, _)
InsertAscUnstable(x, sorted) ==
    IF sorted = <<>> THEN <<x>>
    ELSE IF Head(sorted).scheduledDate < x.scheduledDate
         THEN <<Head(sorted)>> \o InsertAscUnstable(x, Tail(sorted))
         ELSE <<x>> \o sorted

RECURSIVE InsertAsc(_, _)
InsertAsc(x, sorted) ==
    IF sorted = <<>> THEN <<x>>
    ELSE IF Head(sorted).scheduledDate <= x.scheduledDate
         THEN <<Head(sorted)>> \o InsertAsc(x, Tail(sorted))
         ELSE <<x>> \o sorted

RECURSIVE SortAsc(_, _)
SortAsc(seq, acc) ==
    IF seq = <<>> THEN acc
    ELSE SortAsc(Tail(seq), InsertAsc(Head(seq), acc))

getScheduledWorkoutsByUserId(ss, userId) == SortAsc(FilterByUser(ss, userId), <<>>)

\* what a user sees of their own account: the profile with the streak fields
\* and the three listings
ViewOf(us, ws, hs, ss, userId) ==
    <<us[userId], getWorkoutsByUserId(ws, userId),
      getHealthMetricsByUserId(hs, userId), getScheduledWorkoutsByUserId(ss, userId)>>

\* some request of userId is served
RequestOf(userId) ==
    \/ createWorkout(userId)
    \/ createHealthMetrics(userId, 17500)
    \/ \E scheduledDate \in ScheduledDates : createScheduledWorkout(userId, scheduledDate)
    \/ \E id \in RecordIds, body \in OwnerBodies : updateScheduledWorkout(userId, id, body)
    \/ \E id \in RecordIds : deleteScheduledWorkout(userId, id)
    \/ \E id \in RecordIds : getWorkout(userId, id)
    \/ \E id \in RecordIds : deleteWorkout(userId, id)
    \/ \E body \in ProfileBodies : updateUserProfile(userId, body)

\* C15: no request of one user changes what another user sees of their own
\* account: profile, streak fields, workouts, health metrics and scheduled
\* workouts.
C15_UsersAreIndependent ==
    [][\A userId \in DOMAIN users, other \in DOMAIN users :
          (userId # other /\ RequestOf(userId))
          => ViewOf(users', workouts', healthMetrics', scheduledWorkouts', other)
               = ViewOf(users, workouts, healthMetrics, scheduledWorkouts, other)]_vars

\* Two users create workouts and health metrics while the clock advances, at
\* most one tick per record created so far.
NextLists ==
    \/ createUserUpTo(MaxUsers + 1)
    \/ \E userId \in DOMAIN users : Created < MaxRecords /\ createWorkout(userId)
    \/ \E userId \in DOMAIN users :
          Created < MaxRecords /\ createHealthMetrics(userId, 17500)
    \/ \E userId \in DOMAIN users, id \in RecordIds : deleteWorkout(userId, id)
    \/ (now < Created /\ Tick)

SpecLists == Init /\ [][NextLists]_vars

\* the position of the record with this id in the store (insertion order)
Position(store, id) == CHOOSE k \in 1..Len(store) : store[k].id = id

\* listed holds exactly the records of store that belong to userId, each once
ExactlyOwned(store, listed, userId) ==
    /\ \A i \in 1..Len(listed) : listed[i].userId = userId /\ Stored(store, listed[i].id) # {}
    /\ \A k \in 1..Len(store) :
          store[k].userId = userId => \E i \in 1..Len(listed) : listed[i] = store[k]
    /\ \A i, j \in 1..Len(listed) : listed[i].id = listed[j].id => i = j

\* most recent first, equal creation timestamps in insertion order
RecentFirst(store, listed) ==
    \A i, j \in 1..Len(listed) :
        i < j => \/ listed[i].createdAt > listed[j].createdAt
                 \/ /\ listed[i].createdAt = listed[j].createdAt
                    /\ Position(store, listed[i].id) < Position(store, listed[j].id)

\* C16: the workout list and the health-metrics list of a user hold exactly
\* the records of that user, most recent first by creation timestamp, and
\* records with equal timestamps in the order of their insertion.
C16_ListsOwnedRecentFirst ==
    \A userId \in DOMAIN users :
        /\ ExactlyOwned(workouts, getWorkoutsByUserId(workouts, userId), userId)
        /\ RecentFirst(workouts, getWorkoutsByUserId(workouts, userId))
        /\ ExactlyOwned(healthMetrics, getHealthMetricsByUserId(healthMetrics, userId), userId)
        /\ RecentFirst(healthMetrics, getHealthMetricsByUserId(healthMetrics, userId))

\* a user with two workouts of one timestamp and a later one, listed as
\* later, first inserted, second inserted
C16_Witness ==
    \E userId \in DOMAIN users :
        LET listed == getWorkoutsByUserId(workouts, userId)
        IN  /\ Len(listed) = 3
            /\ listed[1].createdAt > listed[2].createdAt
            /\ listed[2].createdAt = listed[3].createdAt
            /\ listed[2].id < listed[3].id

\* the dates of new scheduled workouts, and the bodies that move one to a
\* date between them
ListedDates == { 3, 5 }
DateBodies == { [scheduledDate |-> 4] }

\* Two users schedule workouts, move them to another date and delete them.
NextSchedule ==
    \/ createUserUpTo(MaxUsers + 1)
    \/ \E userId \in DOMAIN users, scheduledDate \in ListedDates :
          Created < MaxRecords /\ createScheduledWorkout(userId, scheduledDate)
    \/ \E userId \in DOMAIN users, id \in RecordIds, body \in DateBodies :
          updateScheduledWorkout(userId, id, body)
    \/ \E userId \in DOMAIN users, id \in RecordIds : deleteScheduledWorkout(userId, id)

SpecSchedule == Init /\ [][NextSchedule]_vars

\* soonest first, equal scheduled dates in insertion order
SoonestFirst(store, listed) ==
    \A i, j \in 1..Len(listed) :
        i < j => \/ listed[i].scheduledDate < listed[j].scheduledDate
                 \/ /\ listed[i].scheduledDate = listed[j].scheduledDate
                    /\ Position(store, listed[i].id) < Position(store, listed[j].id)

\* C17: the scheduled-workout list of a user holds exactly the scheduled
\* workouts of that user, ascending by scheduledDate, equal dates in the
\* order of their insertion, also after an update has changed a date.
C17_ScheduledOwnedSoonestFirst ==
    \A userId \in DOMAIN users :
        /\ ExactlyOwned(scheduledWorkouts,
                        getScheduledWorkoutsByUserId(scheduledWorkouts, userId), userId)
        /\ SoonestFirst(scheduledWorkouts,
                        getScheduledWorkoutsByUserId(scheduledWorkouts, userId))

\* the first and the second of three scheduled workouts were moved to one
\* date, past the third: the third is listed first, then the two that tie,
\* in the order of their insertion
C17_Witness ==
    \E userId \in DOMAIN users :
        LET listed == getScheduledWorkoutsByUserId(scheduledWorkouts, userId)
        IN  /\ Len(listed) = 3
            /\ listed[1].id = 3 /\ listed[1].scheduledDate = 3
            /\ listed[2].id = 1 /\ listed[2].scheduledDate = 4
            /\ listed[3].id = 2 /\ listed[3].scheduledDate = 4

\* ------------------------------------------------------- the trailing week
\* seven days pass without a request
PassWeek ==
    /\ now <= MaxTime
    /\ now' = now + 7 * TicksPerDay
    /\ response' = NoStats
    /\ UNCHANGED <<users, workouts, healthMetrics, scheduledWorkouts, nextId>>
    /\ UNCHANGED pending

\* Workouts are logged tick by tick, a week passes once, and the dashboard
\* is read before and after.
NextWeek ==
    \/ createUser
    \/ \E userId \in DOMAIN users : createWorkout(userId)
    \/ \E userId \in DOMAIN users : getDashboardStats(userId)
    \/ Tick
    \/ PassWeek

SpecWeek == Init /\ [][NextWeek]_vars

\* the workouts of userId created at or after the instant since
LoggedSince(userId, since) ==
    { i \in 1..Len(workouts) :
        workouts[i].userId = userId /\ workouts[i].createdAt >= since }

\* C18: weeklyWorkouts of the stats is the number of the user's workouts
\* with createdAt >= now - 7 days, compared as instants (one created exactly
\* 7 days ago counts, one created a tick earlier does not, whatever its
\* calendar day); totalWorkouts is the number of all workouts of the user.
C18_WeeklyCountsTrailingWeek ==
    response.user \in DOMAIN users
    => /\ response.weeklyWorkouts
            = Cardinality(LoggedSince(response.user, now - 7 * TicksPerDay))
       /\ response.totalWorkouts = Cardinality(LoggedSince(response.user, 0))

\* two workouts of one calendar day, the later one exactly seven days old:
\* it is the only one counted
C18_Witness ==
    /\ response.user \in DOMAIN users
    /\ response.weeklyWorkouts = 1
    /\ response.totalWorkouts = 2
    /\ \E i, j \in 1..Len(workouts) :
          /\ workouts[i].createdAt = now - 7 * TicksPerDay
          /\ workouts[j].createdAt = now - 7 * TicksPerDay - 1
          /\ DayOf(workouts[i].createdAt) = DayOf(workouts[j].createdAt)

\* ------------------------------------------------------- the weight trend
\* weights a health-metrics record may carry: none, 175 and 178.25 lb
LoggedWeights == { NULL, 17500, 17825 }

\* One account logs health metrics while the clock advances, at most one tick
\* per record, sets its profile and reads the dashboard.
NextWeight ==
    \/ createUser
    \/ \E userId \in DOMAIN users, weight \in LoggedWeights :
          nextId.healthMetrics < MaxRecords /\ createHealthMetrics(userId, weight)
    \/ \E userId \in DOMAIN users, body \in ProfileBodies : updateUserProfile(userId, body)
    \/ \E userId \in DOMAIN users : getDashboardStats(userId)
    \/ (now < Created /\ Tick)

SpecWeight == Init /\ [][NextWeight]_vars

\* the health metrics of the user the stats in response were computed for
Listed == getHealthMetricsByUserId(healthMetrics, response.user)

\* C19: the stats carry weightProgress 0 whenever the user has fewer than
\* two health-metrics records or no stored currentWeight, whatever weights
\* the records carry.
C19_NoTrendWithoutBaseline ==
    (/\ response.user \in DOMAIN users
     /\ \/ Len(FilterByUser(healthMetrics, response.user)) < 2
        \/ users[response.user].currentWeight = NULL)
    => response.weightProgress = 0

\* two records with different weights and no currentWeight: progress 0
C19_Witness ==
    /\ response.user \in DOMAIN users
    /\ users[response.user].currentWeight = NULL
    /\ Len(Listed) >= 2
    /\ Listed[1].weight = 17500
    /\ Listed[Len(Listed)].weight = 17825
    /\ response.weightProgress = 0

\* the weight of a record, or the user's currentWeight if it has none
WeightOr(record, userId) ==
    IF record.weight = NULL THEN users[userId].currentWeight ELSE record.weight

\* the user of the stats has two records or more and a stored currentWeight
HasTrend ==
    /\ response.user \in DOMAIN users
    /\ Len(Listed) >= 2
    /\ users[response.user].currentWeight # NULL

\* record is the only one of the user with the greatest (sign 1) or the
\* least (sign -1) creation timestamp
Extreme(record, sign) ==
    \A i \in 1..Len(Listed) :
        Listed[i].id # record.id
        => sign * record.createdAt > sign * Listed[i].createdAt

\* the tenth of a pound nearest to d hundredths, the upper one of two
NearestTenth(d) ==
    CHOOSE r \in (d - 5)..(d + 5) : r % 10 = 0 /\ r - 5 <= d /\ d < r + 5

Returned(value) == Merge(NoStats, [result |-> value])

\* the value of a get or an update that found these records
OrUndefined(found) == IF found = {} THEN "undefined" ELSE "record"

\* the value of map.delete(id)
Deleted(found) == IF found = {} THEN "false" ELSE "true"

\* map.get(id)
mapGet(seq, id) == { seq[i] : i \in Stored(seq, id) }

\* const x = map.get(id); if (!x) return undefined;
\* const updated = { ...x, ...updates }; map.set(id, updated); return updated
mapUpdateInsert(seq, id, updates) ==
    IF Stored(seq, id) = {} THEN Append(seq, Merge([id |-> id], updates))
    ELSE [i \in 1..Len(seq) |->
            IF i \in Stored(seq, id) THEN Merge(seq[i], updates) ELSE seq[i]]

mapUpdateReplace(seq, id, updates) ==
    [i \in 1..Len(seq) |->
        IF i \in Stored(seq, id) THEN Merge([id |-> id], updates) ELSE seq[i]]

mapUpdate(seq, id, updates) ==
    [i \in 1..Len(seq) |->
        IF i \in Stored(seq, id) THEN Merge(seq[i], updates) ELSE seq[i]]

\* MemStorage.getUser
storageGetUser(id) ==
    /\ response' = Returned(OrUndefined({id} \cap DOMAIN users))
    /\ UNCHANGED <<users, workouts, healthMetrics, scheduledWorkouts, nextId, now>>
    /\ UNCHANGED pending

\* MemStorage.updateUser
storageUpdateUser(id, updates) ==
    /\ users' = updateUser(users, id, updates)
    /\ response' = Returned(OrUndefined({id} \cap DOMAIN users))
    /\ UNCHANGED <<workouts, healthMetrics, scheduledWorkouts, nextId, now>>
    /\ UNCHANGED pending

\* MemStorage.getWorkout
storageGetWorkout(id) ==
    /\ response' = Returned(OrUndefined(mapGet(workouts, id)))
    /\ UNCHANGED <<users, workouts, healthMetrics, scheduledWorkouts, nextId, now>>
    /\ UNCHANGED pending

\* MemStorage.updateWorkout
storageUpdateWorkout(id, updates) ==
    /\ workouts' = mapUpdate(workouts, id, updates)
    /\ response' = Returned(OrUndefined(mapGet(workouts, id)))
    /\ UNCHANGED <<users, healthMetrics, scheduledWorkouts, nextId, now>>
    /\ UNCHANGED pending

\* MemStorage.deleteWorkout
storageDeleteWorkoutSoft(id) ==
    /\ workouts' = mapUpdate(workouts, id, [deleted |-> 1])
    /\ response' = Returned(Deleted(mapGet(workouts, id)))
    /\ UNCHANGED <<users, healthMetrics, scheduledWorkouts, nextId, now>>
    /\ UNCHANGED pending

storageDeleteWorkout(id) ==
    /\ workouts' = RemoveId(workouts, id)
    /\ response' = Returned(Deleted(mapGet(workouts, id)))
    /\ UNCHANGED <<users, healthMetrics, scheduledWorkouts, nextId, now>>
    /\ UNCHANGED pending

\* MemStorage.getScheduledWorkout
storageGetScheduledWorkout(id) ==
    /\ response' = Returned(OrUndefined(mapGet(scheduledWorkouts, id)))
    /\ UNCHANGED <<users, workouts, healthMetrics, scheduledWorkouts, nextId, now>>
    /\ UNCHANGED pending

\* MemStorage.updateScheduledWorkout
storageUpdateScheduledWorkout(id, updates) ==
    /\ scheduledWorkouts' = mapUpdate(scheduledWorkouts, id, updates)
    /\ response' = Returned(OrUndefined(mapGet(scheduledWorkouts, id)))
    /\ UNCHANGED <<users, workouts, healthMetrics, nextId, now>>
    /\ UNCHANGED pending

\* MemStorage.deleteScheduledWorkout
storageDeleteScheduledWorkout(id) ==
    /\ scheduledWorkouts' = RemoveId(scheduledWorkouts, id)
    /\ response' = Returned(Deleted(mapGet(scheduledWorkouts, id)))
    /\ UNCHANGED <<users, workouts, healthMetrics, nextId, now>>
    /\ UNCHANGED pending

\* the fields a caller of updateWorkout supplies
WorkoutUpdates == { [createdAt |-> 1] }

\* identifiers a caller may pass, stored or not
AnyUserIds == 1..(MaxUsers + 1)

\* The methods of MemStorage called one by one with any identifier, within
\* one tick of the clock, on a store that has held fewer than MaxRecords
\* workouts and scheduled workouts.
NextCalls ==
    \/ createUser
    \/ \E userId \in DOMAIN users : Created + 1 < MaxRecords /\ createWorkout(userId)
    \/ \E userId \in DOMAIN users, scheduledDate \in ScheduledDates :
          Created + 1 < MaxRecords /\ createScheduledWorkout(userId, scheduledDate)
    \/ \E id \in AnyUserIds : storageGetUser(id)
    \/ \E id \in AnyUserIds, updates \in ProfileBodies : storageUpdateUser(id, updates)
    \/ \E id \in RecordIds : storageGetWorkout(id)
    \/ \E id \in RecordIds, updates \in WorkoutUpdates : storageUpdateWorkout(id, updates)
    \/ \E id \in RecordIds : storageDeleteWorkout(id)
    \/ \E id \in RecordIds : storageGetScheduledWorkout(id)
    \/ \E id \in RecordIds, updates \in DateBodies :
          storageUpdateScheduledWorkout(id, updates)
    \/ \E id \in RecordIds : storageDeleteScheduledWorkout(id)

SpecCalls == Init /\ [][NextCalls]_vars

\* the four collections are left as they were
StoreUnchanged == UNCHANGED <<users, workouts, healthMetrics, scheduledWorkouts>>

\* C22: a get, an update or a delete on an identifier that is not stored
\* returns the not-found value (undefined for get and update, false for
\* delete) and leaves the four collections unchanged.
C22_UnknownIdIsNotFound ==
    [][/\ \A id \in AnyUserIds :
            (/\ id \notin DOMAIN users
             /\ \/ storageGetUser(id)
                \/ \E updates \in ProfileBodies : storageUpdateUser(id, updates))
            => (response'.result = "undefined" /\ StoreUnchanged)
       /\ \A id \in RecordIds :
            /\ (/\ mapGet(workouts, id) = {}
                /\ \/ storageGetWorkout(id)
                   \/ \E updates \in WorkoutUpdates : storageUpdateWorkout(id, updates))
               => (response'.result = "undefined" /\ StoreUnchanged)
            /\ (mapGet(workouts, id) = {} /\ storageDeleteWorkout(id))
               => (response'.result = "false" /\ StoreUnchanged)
            /\ (/\ mapGet(scheduledWorkouts, id) = {}
                /\ \/ storageGetScheduledWorkout(id)
                   \/ \E updates \in DateBodies : storageUpdateScheduledWorkout(id, updates))
               => (response'.result = "undefined" /\ StoreUnchanged)
            /\ (mapGet(scheduledWorkouts, id) = {} /\ storageDeleteScheduledWorkout(id))
               => (response'.result = "false" /\ StoreUnchanged)]_vars

\* a delete has returned false on a store that holds a user, a workout and
\* a scheduled workout
C22_Witness ==
    /\ "result" \in DOMAIN response
    /\ response.result = "false"
    /\ users # <<>>
    /\ workouts # <<>>
    /\ scheduledWorkouts # <<>>

\* after is before with the supplied fields set and every other field kept
PartialMerge(before, after, updates) ==
    /\ DOMAIN after = DOMAIN before \cup DOMAIN updates
    /\ \A f \in DOMAIN updates : after[f] = updates[f]
    /\ \A f \in DOMAIN before \ DOMAIN updates : after[f] = before[f]

\* the record with this id is merged, every other record of the collection
\* is as it was
MergedIn(before, after, id, updates) ==
    /\ Len(after) = Len(before)
    /\ \A i \in 1..Len(before) :
          IF before[i].id = id THEN PartialMerge(before[i], after[i], updates)
          ELSE after[i] = before[i]

\* C23: an update of a stored entity sets every supplied field to the
\* supplied value, keeps every other field of the entity, and changes no
\* other entity of any collection.
C23_UpdateIsPartialMerge ==
    [][/\ \A id \in DOMAIN users, updates \in ProfileBodies :
            storageUpdateUser(id, updates)
            => /\ PartialMerge(users[id], users'[id], updates)
               /\ \A other \in DOMAIN users \ {id} : users'[other] = users[other]
               /\ DOMAIN users' = DOMAIN users
               /\ UNCHANGED <<workouts, healthMetrics, scheduledWorkouts>>
       /\ \A id \in RecordIds, updates \in WorkoutUpdates :
            (mapGet(workouts, id) # {} /\ storageUpdateWorkout(id, updates))
            => /\ MergedIn(workouts, workouts', id, updates)
               /\ UNCHANGED <<users, healthMetrics, scheduledWorkouts>>
       /\ \A id \in RecordIds, updates \in DateBodies :
            (mapGet(scheduledWorkouts, id) # {}
             /\ storageUpdateScheduledWorkout(id, updates))
            => /\ MergedIn(scheduledWorkouts, scheduledWorkouts', id, updates)
               /\ UNCHANGED <<users, workouts, healthMetrics>>]_vars

\* the second of two scheduled workouts was moved to another date: it kept
\* its owner and its completion flag, and the first one is as created
C23_Witness ==
    /\ "result" \in DOMAIN response
    /\ response.result = "record"
    /\ Len(scheduledWorkouts) = 2
    /\ scheduledWorkouts[1].scheduledDate \in ScheduledDates
    /\ scheduledWorkouts[2].scheduledDate \notin ScheduledDates
    /\ scheduledWorkouts[2].userId \in DOMAIN users
    /\ scheduledWorkouts[2].completed = 0

\* no listing of any user holds a record with this id
Unlisted(store, id) ==
    \A userId \in DOMAIN users :
        \A i \in 1..Len(FilterByUser(store, userId)) :
            FilterByUser(store, userId)[i].id # id

\* the number of workouts the dashboard of userId counts in these workouts
TotalWorkouts(ws, userId) ==
    dashboardStats(users, ws, healthMetrics, userId, now).totalWorkouts

\* C24: a delete returns true exactly when the identifier was stored; after
\* it the record is found by no get and in no listing, totalWorkouts of the
\* owner is one less, a second delete returns false, and an identifier
\* once deleted is never stored again.
C24_DeleteIsHard ==
    [][\A id \in RecordIds :
          /\ storageDeleteWorkout(id)
             => /\ response'.result
                     = (IF \E i \in 1..Len(workouts) : workouts[i].id = id
                        THEN "true" ELSE "false")
                /\ response'.result = "true"
                   => /\ mapGet(workouts', id) = {}
                      /\ Unlisted(workouts', id)
                      /\ \A userId \in DOMAIN users :
                            TotalWorkouts(workouts', userId)
                              = TotalWorkouts(workouts, userId)
                                - Cardinality({ i \in 1..Len(workouts) :
                                      workouts[i].id = id
                                      /\ workouts[i].userId = userId })
                      /\ Deleted(mapGet(workouts', id)) = "false"
          /\ storageDeleteScheduledWorkout(id)
             => /\ response'.result
                     = (IF \E i \in 1..Len(scheduledWorkouts) :
                              scheduledWorkouts[i].id = id
                        THEN "true" ELSE "false")
                /\ response'.result = "true"
                   => /\ mapGet(scheduledWorkouts', id) = {}
                      /\ Unlisted(scheduledWorkouts', id)
                      /\ Deleted(mapGet(scheduledWorkouts', id)) = "false"
          /\ (id <= nextId.workouts /\ mapGet(workouts, id) = {})
             => mapGet(workouts', id) = {}
          /\ (id <= nextId.scheduledWorkouts /\ mapGet(scheduledWorkouts, id) = {})
             => mapGet(scheduledWorkouts', id) = {}]_vars

\* the first of two workouts was deleted; the second is still stored
C24_Witness ==
    /\ "result" \in DOMAIN response
    /\ response.result = "true"
    /\ nextId.workouts = 2
    /\ nextId.scheduledWorkouts = 0
    /\ Len(workouts) = 1
    /\ workouts[1].id = 2

\* ------------------------------------------------------ request validation
\* JSON values of a request body
Number(n) == [number |-> n]
String(s) == [string |-> s]
IsNumber(v) == DOMAIN v = {"number"}
IsString(v) == DOMAIN v = {"string"}

\* insertWorkoutSchema.parse: name, type, duration and exercises are
\* required (notes is optional); of these the model carries name and duration
parsesWorkout(body) ==
    /\ {"name", "duration"} \subseteq DOMAIN body
    /\ IsString(body.name)
    /\ IsNumber(body.duration)

\* insertHealthMetricsSchema.parse: every column of the body is optional,
\* weight is a number when present
parsesHealthMetrics(body) ==
    "weight" \in DOMAIN body => IsNumber(body.weight)

\* insertScheduledWorkoutSchema.parse: name, type, scheduledDate and
\* duration are required; of these the model carries name and scheduledDate
parsesScheduledWorkout(body) ==
    /\ {"name", "scheduledDate"} \subseteq DOMAIN body
    /\ IsString(body.name)
    /\ IsNumber(body.scheduledDate)

\* the answer 400 of a POST whose body does not parse
rejected ==
    /\ response' = NoStats
    /\ UNCHANGED <<users, workouts, healthMetrics, scheduledWorkouts, nextId, now>>
    /\ UNCHANGED pending

\* POST /api/workouts
postWorkoutUnchecked(userId, body) == createWorkout(userId)

postWorkout(userId, body) ==
    IF parsesWorkout(body) THEN createWorkout(userId) ELSE rejected

\* POST /api/health-metrics
postHealthMetrics(userId, body) ==
    IF parsesHealthMetrics(body)
    THEN createHealthMetrics(userId, IF "weight" \in DOMAIN body
                                     THEN body.weight.number ELSE NULL)
    ELSE rejected

\* POST /api/scheduled-workouts
postScheduledWorkout(userId, body) ==
    IF parsesScheduledWorkout(body)
    THEN createScheduledWorkout(userId, body.scheduledDate.number)
    ELSE rejected

\* bodies of the three POST requests, some of which do not parse
WorkoutPosts ==
    { [name |-> String("run"), duration |-> Number(30)],
      [name |-> String("run")],
      [name |-> String("run"), duration |-> String("long")] }
HealthMetricsPosts ==
    { [weight |-> Number(17500)], [notes |-> String("tired")],
      [weight |-> String("heavy")] }
ScheduledWorkoutPosts ==
    { [name |-> String("run"), scheduledDate |-> Number(3)],
      [name |-> String("run")] }

\* One account posts workouts, health metrics and scheduled workouts with
\* bodies that parse or do not, while the clock advances, at most one tick
\* per record created.
NextPosts ==
    \/ createUser
    \/ \E userId \in DOMAIN users, body \in WorkoutPosts :
          (Created < MaxRecords \/ ~parsesWorkout(body)) /\ postWorkout(userId, body)
    \/ \E userId \in DOMAIN users, body \in HealthMetricsPosts :
          /\ Created < MaxRecords \/ ~parsesHealthMetrics(body)
          /\ postHealthMetrics(userId, body)
    \/ \E userId \in DOMAIN users, body \in ScheduledWorkoutPosts :
          /\ Created < MaxRecords \/ ~parsesScheduledWorkout(body)
          /\ postScheduledWorkout(userId, body)
    \/ (now < Created + 1 /\ Tick)

SpecPosts == Init /\ [][NextPosts]_vars

\* C25: a POST of a workout, of health metrics or of a scheduled workout
\* whose body fails validation creates no record in any collection and
\* leaves the streak fields of the user as they were.
C25_RejectedPostCreatesNothing ==
    [][\A userId \in DOMAIN users :
          (\/ \E body \in WorkoutPosts :
                 ~parsesWorkout(body) /\ postWorkout(userId, body)
           \/ \E body \in HealthMetricsPosts :
                 ~parsesHealthMetrics(body) /\ postHealthMetrics(userId, body)
           \/ \E body \in ScheduledWorkoutPosts :
                 ~parsesScheduledWorkout(body) /\ postScheduledWorkout(userId, body))
          => /\ UNCHANGED <<workouts, healthMetrics, scheduledWorkouts, nextId>>
             /\ users'[userId].currentStreak = users[userId].currentStreak
             /\ users'[userId].longestStreak = users[userId].longestStreak]_vars

\* a day after the only workout: a rejected POST here must leave the stored
\* streak 1 although a recomputation would give 0
C25_Witness ==
    \E userId \in DOMAIN users :
        /\ Len(WorkoutsOf(workouts, userId)) = 1
        /\ users[userId].currentStreak = 1
        /\ computeCurrentStreak(workouts, userId, now) = 0
        /\ Created < MaxRecords

\* C26: the store's createWorkout changes the workouts only: it leaves every
\* user record, the streak fields included, as it was.
C26_StoreInsertLeavesUsers ==
    [][\A userId \in DOMAIN users : createWorkout(userId) => users' = users]_vars

\* ------------------------------------------- createWorkout, await by await
\* pending maps the id of a workout to the call of MemStorage.createWorkout
\* that inserted it and is suspended at an await: the user it inserts for,
\* the await it waits at, and the locals of updateUserStreak read so far.
Without(calls, id) == [c \in DOMAIN calls \ {id} |-> calls[c]]

\* createWorkout from its first statement to the first await, the one of
\* updateUserStreak on getUser: the workout is set and the user is read
insertWorkout(userId) ==
    /\ nextId.workouts < MaxWorkouts
    /\ LET id == nextId.workouts + 1
       IN  /\ workouts' = Append(workouts,
                              [id |-> id, userId |-> userId, createdAt |-> now])
           /\ nextId' = [nextId EXCEPT !.workouts = id]
           /\ pending' = pending @@
                  (id :> [userId |-> userId,
                          await |-> "getUser",
                          user |-> IF userId \in DOMAIN users
                                   THEN {users[userId]} ELSE {},
                          userWorkouts |-> <<>>])
    /\ response' = NoStats
    /\ UNCHANGED <<users, healthMetrics, scheduledWorkouts, now>>

\* from the await on getUser to the next one: if (!user) return, else the
\* list of the user's workouts is read
resumeAfterGetUser(id) ==
    /\ id \in DOMAIN pending
    /\ pending[id].await = "getUser"
    /\ pending' = [pending EXCEPT ![id] =
          IF pending[id].user = {}
          THEN [pending[id] EXCEPT !.await = "updateUserStreak"]
          ELSE [pending[id] EXCEPT
                   !.await = "getWorkoutsByUserId",
                   !.userWorkouts = getWorkoutsByUserId(workouts, pending[id].userId)]]
    /\ response' = NoStats
    /\ UNCHANGED <<users, workouts, healthMetrics, scheduledWorkouts, nextId, now>>

\* the streak of the list read and the longest streak of the user read
streakOf(call, t) == computeCurrentStreak(call.userWorkouts, call.userId, t)
longestOf(call, t) ==
    ratchet((CHOOSE user \in call.user : TRUE).longestStreak, streakOf(call, t))

\* from the await on getWorkoutsByUserId to the one on updateUser: the
\* streak is computed from the list read, and updateUser sets both fields
resumeAfterGetWorkoutsHalf(id) ==
    /\ id \in DOMAIN pending
    /\ pending[id].await = "getWorkoutsByUserId"
    /\ users' = updateUser(users, pending[id].userId,
                    [currentStreak |-> streakOf(pending[id], now)])
    /\ pending' = [pending EXCEPT ![id].await = "updateUser"]
    /\ response' = NoStats
    /\ UNCHANGED <<workouts, healthMetrics, scheduledWorkouts, nextId, now>>

resumeAfterGetWorkouts(id) ==
    /\ id \in DOMAIN pending
    /\ pending[id].await = "getWorkoutsByUserId"
    /\ users' = updateUser(users, pending[id].userId,
                    [currentStreak |-> streakOf(pending[id], now),
                     longestStreak |-> longestOf(pending[id], now)])
    /\ pending' = [pending EXCEPT ![id].await = "updateUser"]
    /\ response' = NoStats
    /\ UNCHANGED <<workouts, healthMetrics, scheduledWorkouts, nextId, now>>

\* updateUserStreak returns, createWorkout returns the workout
resumeAndReturn(id) ==
    /\ id \in DOMAIN pending
    /\ pending[id].await \in {"updateUser", "updateUserStreak"}
    /\ pending' = Without(pending, id)
    /\ response' = NoStats
    /\ UNCHANGED <<users, workouts, healthMetrics, scheduledWorkouts, nextId, now>>

\* Calls of createWorkout for registered users run from await to await;
\* between two of their steps other calls and dashboard requests may take a
\* step.  The clock advances while no call is suspended.
NextAwait ==
    \/ createUser
    \/ \E userId \in DOMAIN users : insertWorkout(userId)
    \/ \E id \in WorkoutIds : resumeAfterGetUser(id)
    \/ \E id \in WorkoutIds : resumeAfterGetWorkouts(id)
    \/ \E id \in WorkoutIds : resumeAndReturn(id)
    \/ \E userId \in DOMAIN users : getDashboardStats(userId)
    \/ (now < TicksPerDay /\ pending = <<>> /\ Tick)

SpecAwait == Init /\ [][NextAwait]_vars

\* The calls of createWorkout alone: fewer than MaxWorkouts - 1 of them
\* start, for users stored or not, and run from await to await while the
\* clock advances.
NextEngine ==
    \/ createUser
    \/ \E userId \in AnyUserIds : nextId.workouts + 1 < MaxWorkouts /\ insertWorkout(userId)
    \/ \E id \in WorkoutIds : resumeAfterGetUser(id)
    \/ \E id \in WorkoutIds : resumeAfterGetWorkouts(id)
    \/ \E id \in WorkoutIds : resumeAndReturn(id)
    \/ (now < TicksPerDay /\ Tick)

SpecEngine == Init /\ [][NextEngine]_vars

\* the call has set its workout and not yet written the streak fields
BeforeWrite(call) == call.await \in {"getUser", "getWorkoutsByUserId"}

\* C27: no dashboard request of a user is answered while a createWorkout of
\* that user has stored its workout and not yet recomputed the streak.
C27_NoRequestBetweenInsertAndStreak ==
    response.user \in DOMAIN users
    => \A id \in DOMAIN pending :
          pending[id].userId = response.user => ~BeforeWrite(pending[id])

\* C28: when the last of the concurrent createWorkout calls of a user writes
\* the streak, currentStreak is the streak of the complete workout list, and
\* no write lowers longestStreak.
C28_LastWriteIsOfCompleteList ==
    [][\A id \in DOMAIN pending :
          (/\ resumeAfterGetWorkouts(id)
           /\ \A other \in DOMAIN pending :
                 pending[other].userId = pending[id].userId
                 => (other = id \/ ~BeforeWrite(pending[other])))
          => /\ users'[pending[id].userId].currentStreak
                  = computeCurrentStreak(workouts', pending[id].userId, now')
             /\ users'[pending[id].userId].longestStreak
                  >= users[pending[id].userId].longestStreak]_vars

\* C29: a step that changes currentStreak or longestStreak of a user is the
\* step of one recomputation that writes both: currentStreak is the streak
\* it computed and longestStreak the greater of that and the longest streak
\* it read.  A recomputation for a user that is not stored, or one that has
\* not reached its write, changes neither.
C29_StreakFieldsWrittenTogether ==
    [][\A userId \in DOMAIN users :
          (\/ users'[userId].currentStreak # users[userId].currentStreak
           \/ users'[userId].longestStreak # users[userId].longestStreak)
          => \E id \in DOMAIN pending :
                /\ pending[id].userId = userId
                /\ pending[id].await = "getWorkoutsByUserId"
                /\ pending'[id].await = "updateUser"
                /\ users'[userId].currentStreak = streakOf(pending[id], now)
                /\ \E user \in pending[id].user :
                      users'[userId].longestStreak
                        = Max(OrZero(user.longestStreak), users'[userId].currentStreak)]_vars

\* one call has written streak 1 and longest 1; another, for a user that is
\* not stored, has returned from the recomputation without a write
C29_Witness ==
    \E id \in DOMAIN pending, other \in DOMAIN pending :
        /\ pending[id].await = "updateUser"
        /\ pending[id].userId \in DOMAIN users
        /\ users[pending[id].userId].currentStreak = 1
        /\ users[pending[id].userId].longestStreak = 1
        /\ pending[other].user = {}
        /\ pending[other].await = "updateUserStreak"

\* ------------------------------------------------- identity under update
\* bodies of PATCH /api/user/profile that name the identifier column
IdentityBodies == { [id |-> 2] }

\* Two users schedule workouts and send updates of their profiles and of
\* their scheduled workouts, with bodies that name the identifier and the
\* owner columns.
NextIdentity ==
    \/ createUserUpTo(MaxUsers + 1)
    \/ \E userId \in DOMAIN users, scheduledDate \in ScheduledDates :
          Created < MaxRecords /\ createScheduledWorkout(userId, scheduledDate)
    \/ \E userId \in DOMAIN users, body \in ProfileBodies \cup IdentityBodies :
          updateUserProfile(userId, body)
    \/ \E userId \in DOMAIN users, id \in RecordIds, body \in OwnerBodies :
          updateScheduledWorkout(userId, id, body)

SpecIdentity == Init /\ [][NextIdentity]_vars

\* C30: under updates of profiles and of scheduled workouts with any bodies,
\* the id of every user equals the key it is stored under, and the owner of
\* a stored scheduled workout never changes.
C30_IdentityAndOwnerImmutable ==
    /\ [](\A key \in DOMAIN users : users[key].id = key)
    /\ [][\A i \in 1..Len(scheduledWorkouts), j \in 1..Len(scheduledWorkouts') :
            scheduledWorkouts'[j].id = scheduledWorkouts[i].id
            => scheduledWorkouts'[j].userId = scheduledWorkouts[i].userId]_vars

====
